---- MODULE Spec2Model ----
(***************************************************************************)
(* TrainVQG (src/main.py): the LightningModule that trains and evaluates   *)
(* the VQG model.  The module's fields are the state; training_step,       *)
(* validation_step, validation_epoch_end, test_step and test_end are the   *)
(* actions.  Spec lets a caller invoke the hooks in any order; FitSpec     *)
(* drives them the way __main__ configures pl.Trainer.                     *)
(*                                                                         *)
(* Numbers.  A loss and a KL term are doubles that are multiples of        *)
(* 1/Scale = 2^-14 below 8 (2.0 is 2 * Scale).  calculate_losses is        *)
(* computed in the doubles of the code: each quotient, sum and product is  *)
(* rounded to the nearest double, ties to even, on exact binary limbs.     *)
(* np.exp is the numpy build's: its error is below one unit in the last    *)
(* place, so each call returns one of the two doubles next to the          *)
(* exponential, and which of them is the build's choice (exp_up).  The     *)
(* total and the annealing weight are kept as the multiple of 1/Scale      *)
(* nearest to their double, ties to even.  A raw                           *)
(* metric score is a double that is a multiple of 2^-16 below 2, kept as   *)
(* that multiple, so the products of np.round(v * 100, 4) are exact in     *)
(* double arithmetic; the rounded percentages have unit 1e-4.  The float   *)
(* --num_warmup_steps is kept in halves.  An optional value (Python None   *)
(* or a value) is a sequence of length 0 or 1.                             *)
(***************************************************************************)
EXTENDS Integers, Sequences, FiniteSets, Bags, TLC

VARIABLES
    args,                \* self.args: the parsed hyperparameters
    latent_transformer,  \* self.latent_transformer
    model_latent,        \* self.model.latent_transformer
    iter,                \* self.iter
    val_losses,          \* self.val_losses
    bleus, msjs, fbds,   \* self.bleus, self.msjs, self.fbds
    test_scores,         \* self.test_scores
    optimizer,           \* Adam: the instance the trainer steps, how many were built since
    val_Bleu_4,          \* the value last logged as "val_Bleu_4"
    trainer,             \* pl.Trainer and its EarlyStopping callback
    text,                \* a decoded sentence and what filter_special_tokens made of it
    last                 \* the hook that ran last, its inputs and its outcome

vars == <<args, latent_transformer, model_latent, iter, val_losses, bleus, msjs,
          fbds, test_scores, optimizer, val_Bleu_4, trainer, text, last>>

moduleVars == <<args, latent_transformer, model_latent, iter, val_losses, bleus,
                msjs, fbds, test_scores, optimizer, val_Bleu_4, last>>

----------------------------------------------------------------------------
(* Bounds of the model *)

MaxIter == 4        \* training steps explored by Spec
MaxHeld == 2        \* evaluation records the module holds at once in Spec
ValBatches == 1     \* FitSpec: batches of the validation data loader
FitVaried == 2      \* FitSpec: validations whose scores are any of ScoreMaps
MaxTestBatches == 3   \* FitSpec: batches of the test data loader

\* __main__: EarlyStopping(patience=15) and
\* pl.Trainer(val_check_interval=250, limit_val_batches=200)
patience == 15
val_check_interval == 250
limit_val_batches == 200

Scale == 128 * 128          \* losses and beta are counted in units of 2^-14
Limb == 8192                \* base of the limbs of a number: 13 bits

None == <<>>
Some(x) == <<x>>
IsNone(o) == o = <<>>
Get(o) == o[1]

Abs(x) == IF x < 0 THEN -x ELSE x

\* inputs of the model: the hyperparameters a run may be started with
WarmupHalves == {-2, 1, 2, 70000}    \* num_warmup_steps -1.0, 0.5, 1.0, 35000.0
TotalSteps == {0, 4, 6}
\* --num_warmup_steps -1 --total_training_steps 198500: every step is latent and
\* temp = iter / 49625
LongArgs == [num_warmup_halves |-> -2, total_training_steps |-> 198500]
\* --num_warmup_steps 35000 --total_training_steps 35000
DefaultArgs == [num_warmup_halves |-> 70000, total_training_steps |-> 35000]
\* what the model's forward pass may return
LossVals == {2 * Scale, 3 * Scale}
KldVals == {Scale, 99250}
\* score mappings an evaluation may compute (raw values, unit 2^-16:
\* 1536 is 0.0234375 and 512 is 0.0078125, both ties of the rounding, 3277 is
\* 0.0500030517578125)
BM(b, m) == [k \in {"Bleu_4", "msj_4"} |-> IF k = "Bleu_4" THEN b ELSE m]
BMF(b, m, f) == [k \in {"Bleu_4", "msj_4", "fbd"} |->
                    IF k = "Bleu_4" THEN b ELSE IF k = "msj_4" THEN m ELSE f]
ScoreMaps == {BM(1536, 3277), BM(3277, 512), BMF(512, 1536, 3277)}

\* the orders in which scores.items() may yield the keys: those of compute_metrics
\* (line 159) in the order the metrics library inserted them, then msj_4 (line 166)
KeyOrders(scores) ==
    {order \in [1..Cardinality(DOMAIN scores) -> DOMAIN scores] :
        /\ \A i, j \in DOMAIN order : order[i] = order[j] => i = j
        /\ order[Len(order)] = "msj_4"}

----------------------------------------------------------------------------
(* calculate_losses *)

\* Python's a % b: the result has the sign of b
PyMod(a, b) == IF b > 0 THEN a % b ELSE -((-a) % (-b))

\* A number is a sequence of limbs <<a0, a1, ..., an>>, a0 + a1/Limb + ... + an/Limb^n
\* with 0 <= a1..an < Limb: exact binary fixed point, 13 bits to the limb.  A double
\* is held with DoubleLimbs fractional limbs (65 bits), which is exact for the doubles
\* of calculate_losses; the series of np.exp runs on WideLimbs fractional limbs.
DoubleLimbs == 5
WideLimbs == 10

Zeros(n) == [i \in 1..n |-> 0]
One(n) == <<1>> \o Zeros(n)
Ulp(n) == Zeros(n) \o <<1>>
Extend(x, n) == x \o Zeros(n)
Keep(x, n) == SubSeq(x, 1, n + 1)

\* the function f on 1..n as the sequence of its values
Limbs(f) == SubSeq(f, 1, Len(f))

\* the sum of the natural numbers f[i]: the size of the bag that holds f[i] + 1
\* copies of each i, less one copy of each
Sum(f) == BagCardinality([i \in DOMAIN f |-> f[i] + 1]) - Cardinality(DOMAIN f)

\* x + y: a limb takes a carry when a limb below it overflows and those between
\* are full
BigAdd(x, y) ==
    IF y = Zeros(Len(y)) THEN x
    ELSE LET s == Limbs([i \in 1..Len(x) |-> x[i] + y[i]])
         IN  Limbs([i \in 1..Len(s) |->
                 LET c == IF \E j \in (i + 1)..Len(s) :
                                 s[j] >= Limb /\ \A k \in (i + 1)..(j - 1) : s[k] = Limb - 1
                          THEN 1 ELSE 0
                 IN  IF i = 1 THEN s[1] + c ELSE (s[i] + c) % Limb])

\* x - y for x >= y: a limb lends when a limb below it is negative and those
\* between are zero
BigSub(x, y) ==
    IF x = y THEN Limbs(Zeros(Len(x)))
    ELSE LET d == Limbs([i \in 1..Len(x) |-> x[i] - y[i]])
         IN  Limbs([i \in 1..Len(d) |->
                 LET b == IF \E j \in (i + 1)..Len(d) :
                                 d[j] < 0 /\ \A k \in (i + 1)..(j - 1) : d[k] = 0
                          THEN 1 ELSE 0
                 IN  IF i = 1 THEN d[1] - b ELSE (d[i] - b + Limb) % Limb])

\* the number with the digits 0 <= c[i] < 2^31 of weight Limb^-(i - 1): each digit
\* is split over its limb and the two above
Normal(c) ==
    IF Len(c) = 1 THEN c
    ELSE LET n == Len(c)
             low == [i \in 1..n |-> IF i = 1 THEN c[1] ELSE c[i] % Limb]
             mid == [i \in 1..n |-> IF i = n THEN 0
                                    ELSE IF i = 1 THEN c[2] \div Limb
                                    ELSE (c[i + 1] \div Limb) % Limb]
             high == [i \in 1..n |-> IF i + 2 > n THEN 0
                                     ELSE c[i + 2] \div (Limb * Limb)]
         IN  BigAdd(BigAdd(low, Limbs(mid)), Limbs(high))

\* x * m for an integer 0 <= m <= 2^17
BigMul(x, m) ==
    IF x = Zeros(Len(x)) THEN x
    ELSE IF m = 0 THEN Limbs(Zeros(Len(x)))
    ELSE Normal(Limbs([i \in 1..Len(x) |-> x[i] * m]))

\* long division of the limbs of x from limb i on by d, given the remainder r of
\* the limbs above them
RECURSIVE DivFrom(_, _, _, _)
DivFrom(x, d, i, r) ==
    IF i > Len(x) THEN <<>>
    ELSE <<(r * Limb + x[i]) \div d>> \o DivFrom(x, d, i + 1, (r * Limb + x[i]) % d)

\* x / d truncated to the limbs of x, for an integer 0 < d < 2^18
BigDiv(x, d) == <<x[1] \div d>> \o DivFrom(x, d, 2, x[1] % d)

\* Limb^e modulo d, for 0 < d <= 16 and 0 <= e <= 10
Weight(e, d) ==
    IF e = 0 THEN 1 % d
    ELSE IF Limb % d = 0 THEN 0
    ELSE ((((Limb % d) ^ (e \div 2)) % d) * (((Limb % d) ^ (e - e \div 2)) % d)) % d

\* x / d truncated to the limbs of x, for an integer 0 < d <= 16 and x < 2 of at
\* most 11 limbs: a limb of the quotient divides the remainder of the limbs above it
DivSmall(x, d) ==
    Limbs([i \in 1..Len(x) |->
            IF i = 1 THEN x[1] \div d
            ELSE LET above == Sum([j \in 1..(i - 1) |-> x[j] * Weight(i - 1 - j, d)]) % d
                 IN  (above * Limb + x[i]) \div d])

\* x / p truncated to the limbs of x, for a power of two p <= 2^18: a limb of the
\* quotient is settled by the two limbs above it
ShiftDown(x, p) ==
    IF p = 1 THEN x
    ELSE Limbs([i \in 1..Len(x) |->
            IF i = 1 THEN x[1] \div p
            ELSE LET above == IF i = 2 THEN x[1] % p
                              ELSE IF i = 3 THEN ((x[1] % p) * Limb + x[2]) % p
                              ELSE (x[i - 2] * Limb + x[i - 1]) % p
                 IN  (above * Limb + x[i]) \div p])

BigLess(x, y) == \E i \in 1..Len(x) : x[i] < y[i] /\ \A j \in 1..(i - 1) : x[j] = y[j]

\* the sum of the products of a limb of x and a limb of y of weight Limb^-(p - 1)
Column(x, y, p) ==
    LET from == IF p > Len(y) THEN p + 1 - Len(y) ELSE 1
        to == IF p > Len(x) THEN Len(x) ELSE p
    IN  Sum([i \in from..to |-> x[i] * y[p + 1 - i]])

\* x * y for x <= 1 and y <= 1 of as many limbs, truncated to the limbs of x after
\* two limbs more
Product(x, y) ==
    IF x[1] = 1 THEN y
    ELSE IF y[1] = 1 THEN x
    ELSE Keep(Normal(Limbs([p \in 1..(Len(x) + 2) |-> Column(x, y, p)])), Len(x) - 1)

\* is the part of x below its first n fractional limbs more than half a unit of
\* limb n, or exactly half with limb n odd (round to nearest, ties to even)
RoundsUp(x, n) ==
    LET tail == SubSeq(x, n + 2, Len(x))
        half == <<Limb \div 2>> \o Zeros(Len(tail) - 1)
    IN  (tail = half /\ x[n + 1] % 2 = 1) \/ BigLess(half, tail)

\* x rounded to n fractional limbs
RoundTo(x, n) ==
    IF RoundsUp(x, n) THEN BigAdd(Keep(x, n), Ulp(n)) ELSE Keep(x, n)

\* the exponent of the leading bit of n, for 0 < n < 2^19
Log2(n) == CHOOSE e \in 0..18 : 2 ^ e <= n /\ n < 2 ^ (e + 1)

\* the double nearest to x, ties to even, for x = 0 or 1/2 <= x < 2^19: x scaled
\* into [1, 2), where a double has 52 fractional bits = 4 limbs, and scaled back
RoundDouble(x) ==
    IF x[1] = 0
    THEN ShiftDown(Extend(RoundTo(BigMul(x, 2), DoubleLimbs - 1), 1), 2)
    ELSE LET p == 2 ^ Log2(x[1])
         IN  BigMul(Extend(RoundTo(ShiftDown(Extend(x, 2), p), DoubleLimbs - 1), 1), p)

\* the least j with n * 2^j >= den, for 0 < n <= den < 2^18
Doublings(n, den) == CHOOSE j \in 0..18 : n * 2 ^ j >= den /\ (j = 0 \/ n * 2 ^ (j - 1) < den)

\* line 55: temp = mod / cycle_num, the double nearest to num/den, for
\* 0 <= num/den <= 1/2 and den < 2^18, on WideLimbs fractional limbs
TempDouble(num, den) ==
    IF num = 0 THEN Limbs(Zeros(WideLimbs + 1))
    ELSE LET j == Doublings(num, den)
             quotient == BigDiv(Extend(<<num * 2 ^ j>>, DoubleLimbs + 1), den)
         IN  ShiftDown(Extend(RoundTo(quotient, DoubleLimbs - 1),
                              WideLimbs - DoubleLimbs + 1), 2 ^ j)

\* <<k, the term x^k / k!, the sum with the term (-x)^k / k!>>
AddTerm(k, term, sum) ==
    <<k, term, IF k % 2 = 1 THEN BigSub(sum, term) ELSE BigAdd(sum, term)>>

\* the exponential series of -x after one more term: st is <<k, x^k / k!, the sum
\* of the terms (-x)^i / i! up to i = k>>
SeriesStep(x, st) == AddTerm(st[1] + 1, DivSmall(Product(st[2], x), st[1] + 1), st[3])

\* the series after at most n more terms: it ends when a term is zero
RECURSIVE Series(_, _, _)
Series(x, st, n) ==
    IF st[2] = Zeros(Len(x)) \/ n = 0 THEN st
    ELSE Series(x, SeriesStep(x, st), n - 1)

\* x^(2^n) for x <= 1
RECURSIVE Squared(_, _)
Squared(x, n) ==
    IF x[1] = 1 \/ n = 0 THEN x
    ELSE Squared(Product(x, x), n - 1)

\* the greatest double at most x, for 1/2 <= x < 1: x truncated to 53 bits
DoubleBelow(x) == ShiftDown(Extend(Keep(BigMul(x, 2), DoubleLimbs - 1), 1), 2)

\* the double above the double x, for 1/2 <= x < 1: x + 2^-53
DoubleAbove(x) == BigAdd(x, Zeros(DoubleLimbs) \o <<Limb \div 2>>)

\* np.exp(-temp) for the double temp <= 1/2: exp(0) is 1; otherwise the exponential
\* is no double and np.exp returns the double below it or, with up, the double above
\* it.  At most Terms terms of the series are summed for temp / 2^Halvings, to 130
\* bits, and the sum is squared Halvings times
Halvings == 8
Terms == 12

ExpNegBelow(temp) ==
    DoubleBelow(Squared(Series(ShiftDown(temp, 2 ^ Halvings),
                               <<0, One(WideLimbs), One(WideLimbs)>>, Terms)[3], Halvings))

\* the phases <<num, den>> that the explored step budgets produce in the sigmoid
\* branch within MaxIter + 1 iterations
ExploredPhases ==
    {p \in UNION {{<<(4 * i) % den, den>> : i \in 0..(MaxIter + 1)} :
                      den \in {4, 6, 198500}} : 2 * p[1] <= p[2]}

\* ExpNegBelow over the explored phases, evaluated once (f @@ <<>> is f with its
\* values computed)
ExpNegTable ==
    [temp \in {TempDouble(p[1], p[2]) : p \in ExploredPhases} |-> ExpNegBelow(temp)] @@ <<>>

ExpNegDown(temp) ==
    IF temp \in DOMAIN ExpNegTable THEN ExpNegTable[temp] ELSE ExpNegBelow(temp)

NpExpNeg(temp, up) ==
    IF temp = Zeros(WideLimbs + 1) THEN One(DoubleLimbs)
    ELSE IF up THEN DoubleAbove(ExpNegDown(temp))
    ELSE ExpNegDown(temp)

\* the double 1 + e for a double 1/2 <= e <= 1, on the 4 limbs of a double in [1, 2]
OnePlus(e) ==
    IF e = One(DoubleLimbs) THEN Extend(<<2>>, DoubleLimbs - 1)
    ELSE Keep(RoundDouble(BigAdd(One(DoubleLimbs), e)), DoubleLimbs - 1)

\* the greatest c' <= c with s * c' <= x
RECURSIVE StepDown(_, _, _)
StepDown(x, s, c) ==
    LET y == BigMul(s, c)
    IN  IF y = x \/ BigLess(y, x) THEN c ELSE StepDown(x, s, c - 1)

\* the greatest d with s * d <= x, for x < s * Limb and s <= 2: at most the estimate
\* that divides by the first two limbs of s, plus 1
Digit(x, s) == StepDown(x, s, (x[1] * Limb + x[2]) \div (s[1] * Limb + s[2]) + 1)

\* long division by s: the quotient q with the limb d more, and the remainder of x
Appended(q, x, s, d) == <<q \o <<d>>, BigSub(x, BigMul(s, d))>>

\* st = <<the limbs of a quotient so far, the remainder>> with one limb more
NextLimb(st, s) ==
    LET x == BigMul(st[2], Limb)
    IN  Appended(st[1], x, s, Digit(x, s))

\* the quotient to 1 and DoubleLimbs - 1 limbs, with its remainder
RECURSIVE Quotient(_, _)
Quotient(st, s) ==
    IF Len(st[1]) = DoubleLimbs THEN st
    ELSE Quotient(NextLimb(st, s), s)

\* the quotient st[1] rounded to nearest by its remainder st[2], ties to even, halved
HalfRounded(st, s) ==
    LET r2 == BigMul(st[2], 2)
        up == (r2 = s /\ st[1][DoubleLimbs] % 2 = 1) \/ BigLess(s, r2)
    IN  ShiftDown(Extend(IF up THEN BigAdd(st[1], Ulp(DoubleLimbs - 1)) ELSE st[1], 1), 2)

\* the double 1 / s for a double 1 < s <= 2: 2/s = 1 + (2 - s)/s is in [1, 2), 1 and
\* 4 limbs
Reciprocal(s) ==
    IF s = Extend(<<2>>, DoubleLimbs - 1) THEN <<0, Limb \div 2>> \o Zeros(DoubleLimbs - 1)
    ELSE HalfRounded(Quotient(<<<<1>>, BigSub(Extend(<<2>>, DoubleLimbs - 1), s)>>, s), s)

\* line 58: beta = 1/(1 + np.exp(-temp)) as the double the code computes
SigmoidDouble(num, den, up) == Reciprocal(OnePlus(NpExpNeg(TempDouble(num, den), up)))

\* line 62: the double loss + beta * kld for a double beta, base = loss and k = kld
\* in units of 1/Scale, 0 <= base, k < 2^17; the product is rounded, then the sum
Weighted(beta, k, base) ==
    IF beta = One(DoubleLimbs) THEN Extend(<<base + k>>, DoubleLimbs)
    ELSE RoundDouble(BigAdd(Extend(<<base>>, DoubleLimbs), RoundDouble(BigMul(beta, k))))

\* line 62 in the sigmoid branch: the double loss + beta * kld, in units of 1/Scale
TotalDouble(num, den, k, base, up) == Weighted(SigmoidDouble(num, den, up), k, base)

\* the integer nearest to x, ties to even
NearestInt(x) == x[1] + IF RoundsUp(x, 0) THEN 1 ELSE 0

\* SigmoidDouble rounded to the nearest unit, over ExploredPhases, evaluated once
SigmoidTable ==
    [q \in ExploredPhases \X BOOLEAN |->
        NearestInt(BigMul(SigmoidDouble(q[1][1], q[1][2], q[2]), Scale))] @@ <<>>

\* TotalDouble rounded to the nearest unit, over the explored inputs, evaluated once
SigmoidPlusTable ==
    [q \in ExploredPhases \X KldVals \X LossVals \X BOOLEAN |->
        NearestInt(TotalDouble(q[1][1], q[1][2], q[2], q[3], q[4]))] @@ <<>>

\* 1/(1 + np.exp(-temp)), the double rounded to the nearest unit 1/Scale
Sigmoid(num, den, up) ==
    IF <<<<num, den>>, up>> \in DOMAIN SigmoidTable THEN SigmoidTable[<<<<num, den>>, up>>]
    ELSE NearestInt(BigMul(SigmoidDouble(num, den, up), Scale))

\* loss + 1/1 + np.exp(-temp) * kld in doubles, rounded to the nearest unit
SigmoidPlus_precedence(num, den, k, base, up) ==
    NearestInt(Weighted(Extend(OnePlus(NpExpNeg(TempDouble(num, den), up)), 1), k, base))

\* loss + 1/(1 + np.exp(-temp)) * kld, the double rounded to the nearest unit
SigmoidPlus(num, den, k, base, up) ==
    IF <<<<num, den>>, k, base, up>> \in DOMAIN SigmoidPlusTable
    THEN SigmoidPlusTable[<<<<num, den>>, k, base, up>>]
    ELSE NearestInt(TotalDouble(num, den, k, base, up))

Phase_whole_run(it, total_training_steps) ==
    <<Abs(PyMod(it, total_training_steps)), Abs(total_training_steps)>>

\* the phase temp = (iter % cycle_num)/cycle_num as a fraction <<num, den>>, where
\* cycle_num = total_training_steps/4: both are kept in quarters, so that
\* 4 * cycle_num = total_training_steps and 4 * mod = (4 * iter) % total_training_steps
Phase(it, total_training_steps) ==
    LET cycle_num4 == total_training_steps
        mod4 == PyMod(4 * it, cycle_num4)
    IN  <<Abs(mod4), Abs(cycle_num4)>>

\* beta of calculate_losses; r = 0.5 is the default argument
Beta(it, total_training_steps, exp_up) ==
    LET temp == Phase(it, total_training_steps)
    IN  IF 2 * temp[1] <= temp[2] THEN Sigmoid(temp[1], temp[2], exp_up) ELSE Scale

\* line 62: loss + beta * kld, the double rounded to the nearest unit
TotalLoss(loss, kld, it, total_training_steps, exp_up) ==
    LET temp == Phase(it, total_training_steps)
    IN  IF 2 * temp[1] <= temp[2] THEN SigmoidPlus(temp[1], temp[2], kld, loss, exp_up)
        ELSE loss + kld

Losses(t, r, k) == [total |-> t, rec |-> r, kl |-> k]

calculate_losses_eager(loss, kld, it, total_training_steps, exp_up) ==
    IF total_training_steps = 0 THEN None
    ELSE IF IsNone(kld) THEN Some(Losses(loss, loss, 0))
    ELSE Some(Losses(TotalLoss(loss, Get(kld), it, total_training_steps, exp_up),
                     loss, Get(kld)))

\* calculate_losses(loss, kld): Some(losses), or None when it raises
\* (ZeroDivisionError: float modulo, when cycle_num is 0.0); exp_up is the choice
\* of np.exp in this call
calculate_losses(loss, kld, it, total_training_steps, exp_up) ==
    IF IsNone(kld) THEN Some(Losses(loss, loss, 0))
    ELSE IF total_training_steps = 0 THEN None
    ELSE Some(Losses(TotalLoss(loss, Get(kld), it, total_training_steps, exp_up),
                     loss, Get(kld)))

\* the choices of np.exp the call has: line 58 runs when the forward pass returned
\* a KL term and temp <= r, and np.exp(-0.0) is 1.0 whatever the build
ExpChoices(fwd_ok, kld, it, total_training_steps) ==
    IF fwd_ok /\ ~IsNone(kld) /\ total_training_steps # 0
       /\ Phase(it, total_training_steps)[1] # 0
       /\ 2 * Phase(it, total_training_steps)[1] <= Phase(it, total_training_steps)[2]
    THEN BOOLEAN ELSE {FALSE}

----------------------------------------------------------------------------
(* forward: the model returns a KL term exactly in latent mode *)

ForwardKlds(flag) == IF flag THEN {Some(k) : k \in KldVals} ELSE {None}

----------------------------------------------------------------------------

EmptyAcc == [total |-> <<>>, rec |-> <<>>, kl |-> <<>>]
EmptyList == [is_list |-> TRUE, items |-> <<>>, sum |-> 0, n |-> 0]

NoCall == [op |-> "none", result |-> "none", transitioned |-> FALSE,
           entry_iter |-> 0, entry_latent |-> FALSE, loss |-> None, kld |-> None,
           losses |-> None, metric_failed |-> FALSE, entry_acc |-> 0, best |-> None]

NoText == [decoded |-> <<>>, filtered |-> None, again |-> None]

\* the module as __init__ leaves it, for the hyperparameters a, with the decoded
\* sentence t at hand
Start(a, t) ==
    /\ args = a
    /\ latent_transformer = FALSE
    /\ model_latent = FALSE
    /\ iter = 0
    /\ val_losses = EmptyAcc
    /\ bleus = <<>>
    /\ msjs = <<>>
    /\ fbds = <<>>
    /\ test_scores = [k \in {} |-> EmptyList]
    /\ optimizer = [in_use |-> 0, built |-> 0]
    /\ val_Bleu_4 = None
    /\ trainer = [phase |-> "train", global_step |-> 0, batches |-> 0,
                  wait_count |-> 0, best_score |-> None, should_stop |-> FALSE]
    /\ text = t
    /\ last = NoCall

Init ==
    \E a \in [num_warmup_halves : WarmupHalves, total_training_steps : TotalSteps]
                \cup {LongArgs} :
        Start(a, NoText)

----------------------------------------------------------------------------
(* training_step *)

WarmupPassed_inclusive(a, it) == a.num_warmup_halves <= 2 * it

\* line 67: self.args.num_warmup_steps < self.iter
WarmupPassed(a, it) == a.num_warmup_halves < 2 * it

ModeAfterCheck_toggle(flag, a, it) == IF WarmupPassed(a, it) THEN ~flag ELSE flag

\* lines 67-69: the flag after the warmup test
ModeAfterCheck(flag, a, it) == IF WarmupPassed(a, it) THEN TRUE ELSE flag

ModelModeAfterCheck_forgotten(flag, a, it) == flag

\* lines 67 and 69: the model's flag after the warmup test
ModelModeAfterCheck(flag, a, it) == IF WarmupPassed(a, it) THEN TRUE ELSE flag

\* line 70: configure_optimizers() builds a new Adam (instance number built + 1) and
\* the result is dropped; the trainer keeps stepping the instance it got from
\* configure_optimizers when fit started (instance 0)
OptimizerAfterCheck(opt, a, it) ==
    IF WarmupPassed(a, it) THEN [opt EXCEPT !.built = @ + 1] ELSE opt

IterAfterStep_first(it, completed) == it + 1

\* line 77 runs only when lines 72-76 did not raise
IterAfterStep(it, completed) == IF completed THEN it + 1 ELSE it

training_step(fwd_ok, loss, kld, exp_up) ==
    LET flag == ModeAfterCheck(latent_transformer, args, iter)
        res == IF fwd_ok
               THEN calculate_losses(loss, kld, iter, args.total_training_steps, exp_up)
               ELSE None
        completed == ~IsNone(res)
    IN  /\ latent_transformer' = flag
        /\ model_latent' = ModelModeAfterCheck(model_latent, args, iter)
        /\ optimizer' = OptimizerAfterCheck(optimizer, args, iter)
        /\ iter' = IterAfterStep(iter, completed)
        /\ last' = [NoCall EXCEPT !.op = "training_step",
                        !.result = IF completed THEN "returned" ELSE "raised",
                        !.transitioned = WarmupPassed(args, iter),
                        !.entry_iter = iter, !.entry_latent = latent_transformer,
                        !.loss = IF fwd_ok THEN Some(loss) ELSE None,
                        !.kld = IF fwd_ok THEN kld ELSE None,
                        !.losses = res]
        /\ UNCHANGED <<args, val_losses, bleus, msjs, fbds, test_scores, val_Bleu_4>>

----------------------------------------------------------------------------
(* validation_step *)

AppendLosses_skip_kl(acc, l) ==
    [total |-> Append(acc.total, l.total), rec |-> Append(acc.rec, l.rec), kl |-> acc.kl]

\* lines 86-88: one .item() appended to each list
AppendLosses(acc, l) ==
    [total |-> Append(acc.total, l.total), rec |-> Append(acc.rec, l.rec),
     kl |-> Append(acc.kl, l.kl)]

validation_step(fwd_ok, loss, kld, exp_up) ==
    LET res == IF fwd_ok
               THEN calculate_losses(loss, kld, iter, args.total_training_steps, exp_up)
               ELSE None
    IN  /\ val_losses' = IF IsNone(res) THEN val_losses ELSE AppendLosses(val_losses, Get(res))
        /\ last' = [NoCall EXCEPT !.op = "validation_step",
                        !.result = IF IsNone(res) THEN "raised" ELSE "returned",
                        !.entry_iter = iter, !.entry_latent = latent_transformer,
                        !.loss = IF fwd_ok THEN Some(loss) ELSE None,
                        !.kld = IF fwd_ok THEN kld ELSE None,
                        !.losses = res]
        /\ UNCHANGED <<args, latent_transformer, model_latent, iter, bleus, msjs, fbds,
                       test_scores, optimizer, val_Bleu_4>>

----------------------------------------------------------------------------
(* decode_and_print *)

\* n/d rounded to the nearest integer, ties to even (np.rint), n >= 0, d > 0
RoundHalfEven(n, d) ==
    LET q == n \div d
        r == n % d
    IN  IF 2 * r < d THEN q
        ELSE IF 2 * r > d THEN q + 1
        ELSE IF q % 2 = 0 THEN q ELSE q + 1

\* np.round(np.mean(v) * 100, 4) of a scalar score v, in units of 1e-4: np.round
\* is rint(x * 10^4) / 10^4, and for v a multiple of 2^-16 the double products
\* v * 100 and x * 10^4 are exact, so rint sees v * 10^6 = (v / 2^-16) * 15625 / 1024
RoundedVal(v) == RoundHalfEven(v * 15625, 1024)

Recorded_overwrite(hist, k, scores, it, val) ==
    IF val /\ k \in DOMAIN scores THEN <<<<it, RoundedVal(scores[k])>>>> ELSE hist

Recorded_always(hist, k, scores, it, val) ==
    IF k \in DOMAIN scores THEN Append(hist, <<it, RoundedVal(scores[k])>>) ELSE hist

\* lines 168-176: the history of key k after the scores were computed
Recorded(hist, k, scores, it, val) ==
    IF val /\ k \in DOMAIN scores THEN Append(hist, <<it, RoundedVal(scores[k])>>)
    ELSE hist

\* max(hist, key=itemgetter(1)) over hist[i..], best being the maximum so far:
\* a later entry replaces it only when its value is strictly greater
RECURSIVE MaxFrom(_, _, _)
MaxFrom(hist, i, best) ==
    IF i > Len(hist) THEN best
    ELSE MaxFrom(hist, i + 1, IF hist[i][2] > best[2] THEN hist[i] ELSE best)

MaxByValue_by_iteration(hist) == hist[Len(hist)]

\* lines 178-179: max(self.bleus, key=itemgetter(1)) of a non-empty history
MaxByValue(hist) == MaxFrom(hist, 2, hist[1])

\* lines 178-184: the pairs reported as HIGHEST BLEU / MSJ_4 SCORE; None when max()
\* raises ValueError on an empty history
BestReport(b, m) ==
    IF b = <<>> \/ m = <<>> THEN None
    ELSE Some([bleu |-> MaxByValue(b), msj |-> MaxByValue(m)])

decode_and_print_default(metric_ok, scores, val) ==
    [raised |-> ~metric_ok, bleus |-> bleus, msjs |-> msjs, fbds |-> fbds,
     best |-> Some([bleu |-> <<0, 0>>, msj |-> <<0, 0>>])]

\* decode_and_print(batch, val): the histories after the call, the best scores it
\* reported and whether it raised.  compute_metrics may raise (line 159) before
\* anything is recorded; max() of an empty history raises ValueError (lines
\* 178-179) after the recording.
decode_and_print(metric_ok, scores, val) ==
    IF ~metric_ok
    THEN [raised |-> TRUE, bleus |-> bleus, msjs |-> msjs, fbds |-> fbds, best |-> None]
    ELSE LET b == Recorded(bleus, "Bleu_4", scores, iter, val)
             m == Recorded(msjs, "msj_4", scores, iter, val)
             f == Recorded(fbds, "fbd", scores, iter, val)
         IN  [raised |-> IsNone(BestReport(b, m)), bleus |-> b, msjs |-> m, fbds |-> f,
              best |-> BestReport(b, m)]

----------------------------------------------------------------------------
(* validation_epoch_end *)

ClearedLosses_keep_kl(acc) == [k \in DOMAIN acc |-> IF k = "kl" THEN acc[k] ELSE <<>>]

\* lines 102-104: every list of the accumulator is replaced by []
ClearedLosses(acc) == [k \in DOMAIN acc |-> <<>>]

\* lines 97-99: self.log("val_" + k, rounded_val) for the monitored key
LoggedBleu(logged, scores) ==
    IF "Bleu_4" \in DOMAIN scores THEN Some(RoundedVal(scores["Bleu_4"])) ELSE logged

validation_epoch_end(metric_ok, scores) ==
    LET d == decode_and_print(metric_ok, scores, TRUE)
    IN  /\ bleus' = d.bleus
        /\ msjs' = d.msjs
        /\ fbds' = d.fbds
        /\ val_losses' = IF d.raised THEN val_losses ELSE ClearedLosses(val_losses)
        /\ val_Bleu_4' = IF d.raised THEN val_Bleu_4 ELSE LoggedBleu(val_Bleu_4, scores)
        /\ last' = [NoCall EXCEPT !.op = "validation_epoch_end",
                        !.result = IF d.raised THEN "raised" ELSE "returned",
                        !.entry_iter = iter, !.entry_latent = latent_transformer,
                        !.metric_failed = ~metric_ok,
                        !.entry_acc = Len(val_losses.total),
                        !.best = d.best]
        /\ UNCHANGED <<args, latent_transformer, model_latent, iter, test_scores, optimizer>>

----------------------------------------------------------------------------
(* test_step, test_end *)

RECURSIVE Accumulate_keep_first(_, _, _)
Accumulate_keep_first(ts, scores, keys) ==
    IF keys = <<>> THEN [raised |-> FALSE, test_scores |-> ts]
    ELSE LET k == Head(keys)
         IN  IF k \notin DOMAIN ts
             THEN Accumulate_keep_first(
                      [x \in DOMAIN ts \cup {k} |->
                          IF x = k THEN [EmptyList EXCEPT !.items = <<scores[k]>>]
                          ELSE ts[x]], scores, Tail(keys))
             ELSE IF ts[k].is_list
                  THEN Accumulate_keep_first([ts EXCEPT ![k].items = Append(@, scores[k])],
                                             scores, Tail(keys))
             ELSE [raised |-> TRUE, test_scores |-> ts]

\* lines 115-119 for the remaining keys of scores.items(): a new key is registered
\* with [], a known key gets the value appended; append on a reduced entry (a float
\* after test_end) raises AttributeError and the loop stops there, the entries
\* registered before it staying in place
RECURSIVE Accumulate(_, _, _)
Accumulate(ts, scores, keys) ==
    IF keys = <<>> THEN [raised |-> FALSE, test_scores |-> ts]
    ELSE LET k == Head(keys)
         IN  IF k \notin DOMAIN ts
             THEN Accumulate([x \in DOMAIN ts \cup {k} |->
                                  IF x = k THEN EmptyList ELSE ts[x]], scores, Tail(keys))
             ELSE IF ts[k].is_list
                  THEN Accumulate([ts EXCEPT ![k].items = Append(@, scores[k])],
                                  scores, Tail(keys))
             ELSE [raised |-> TRUE, test_scores |-> ts]

\* test_step for the scores of a batch, whose dict yields its keys in the given order
test_step(metric_ok, scores, order) ==
    LET d == decode_and_print(metric_ok, scores, FALSE)
        acc == Accumulate(test_scores, scores, order)
    IN  /\ bleus' = d.bleus
        /\ msjs' = d.msjs
        /\ fbds' = d.fbds
        /\ test_scores' = IF d.raised THEN test_scores ELSE acc.test_scores
        /\ last' = [NoCall EXCEPT !.op = "test_step",
                        !.result = IF d.raised \/ acc.raised THEN "raised" ELSE "returned",
                        !.entry_iter = iter, !.entry_latent = latent_transformer,
                        !.metric_failed = ~metric_ok,
                        !.best = d.best]
        /\ UNCHANGED <<args, latent_transformer, model_latent, iter, val_losses,
                       optimizer, val_Bleu_4>>

RECURSIVE SumSeq(_)
SumSeq(s) == IF s = <<>> THEN 0 ELSE Head(s) + SumSeq(Tail(s))

\* np.mean of an entry: of a list the fraction sum/n (nan when n = 0), of a float itself
NpMean(e) ==
    IF e.is_list
    THEN [is_list |-> FALSE, items |-> <<>>, sum |-> SumSeq(e.items), n |-> Len(e.items)]
    ELSE e

test_end ==
    /\ test_scores' = [k \in DOMAIN test_scores |-> NpMean(test_scores[k])]
    /\ last' = [NoCall EXCEPT !.op = "test_end", !.result = "returned",
                    !.entry_iter = iter, !.entry_latent = latent_transformer]
    /\ UNCHANGED <<args, latent_transformer, model_latent, iter, val_losses, bleus,
                   msjs, fbds, optimizer, val_Bleu_4>>

----------------------------------------------------------------------------
(* filter_special_tokens.  A string is the sequence of its pieces, each a      *)
(* whitespace character or a token; decoded sentences separate their tokens by *)
(* whitespace.                                                                 *)

\* BertTokenizer("bert-base-uncased"): all_special_tokens and sep_token
special_tokens == {"[UNK]", "[SEP]", "[PAD]", "[CLS]", "[MASK]"}
sep_token == "[SEP]"

IsToken(p) == p # " "

\* str.split(): the tokens between runs of whitespace
Split(str) == SelectSeq(str, IsToken)

\* " ".join(list)
RECURSIVE Join(_)
Join(list) ==
    IF list = <<>> THEN <<>>
    ELSE IF Len(list) = 1 THEN list
    ELSE <<Head(list), " ">> \o Join(Tail(list))

\* list.index(x) counted from 1, x being in the list from position i on
RECURSIVE IndexFrom(_, _, _)
IndexFrom(list, x, i) == IF list[i] = x THEN i ELSE IndexFrom(list, x, i + 1)

\* lines 197-200: the loop over list[i..] appending the non-special tokens
RECURSIVE Filtered(_, _, _)
Filtered(list, i, filtered) ==
    IF i > Len(list) THEN filtered
    ELSE Filtered(list, i + 1,
                  IF list[i] \notin special_tokens THEN Append(filtered, list[i])
                  ELSE filtered)

filter_special_tokens_no_cut(decoded_sentence_string) ==
    Join(Filtered(Split(decoded_sentence_string), 1, <<>>))

filter_special_tokens(decoded_sentence_string) ==
    LET decoded_sentence_list == Split(decoded_sentence_string)
        cut == IF \E i \in 1..Len(decoded_sentence_list) :
                      decoded_sentence_list[i] = sep_token
               THEN SubSeq(decoded_sentence_list, 1,
                           IndexFrom(decoded_sentence_list, sep_token, 1) - 1)
               ELSE decoded_sentence_list
    IN  Join(Filtered(cut, 1, <<>>))

----------------------------------------------------------------------------
(* Spec: the hooks called in any order.  Nothing in src/main.py catches an     *)
(* exception, so a hook that raises ends the run.                            *)

Running == last.result # "raised"

RECURSIVE LongestList(_, _)
LongestList(ts, keys) ==
    IF keys = {} THEN 0
    ELSE LET k == CHOOSE x \in keys : TRUE
             rest == LongestList(ts, keys \ {k})
             mine == 1 + Len(ts[k].items)
         IN  IF mine > rest THEN mine ELSE rest

\* accumulated validation losses, recorded evaluations and test_step calls counted
Held == Len(val_losses.total) + Len(bleus) + LongestList(test_scores, DOMAIN test_scores)

TrainingStep ==
    /\ Running
    /\ iter < MaxIter
    /\ \E fwd_ok \in BOOLEAN, loss \in LossVals :
         \E kld \in ForwardKlds(ModelModeAfterCheck(model_latent, args, iter)) :
            \E exp_up \in ExpChoices(fwd_ok, kld, iter, args.total_training_steps) :
               training_step(fwd_ok, loss, kld, exp_up)
    /\ UNCHANGED <<trainer, text>>

ValidationStep ==
    /\ Running
    /\ Held < MaxHeld
    /\ \E fwd_ok \in BOOLEAN, loss \in LossVals, kld \in ForwardKlds(model_latent) :
         \E exp_up \in ExpChoices(fwd_ok, kld, iter, args.total_training_steps) :
            validation_step(fwd_ok, loss, kld, exp_up)
    /\ UNCHANGED <<trainer, text>>

ValidationEpochEnd ==
    /\ Running
    /\ Held < MaxHeld
    /\ \E metric_ok \in BOOLEAN, scores \in ScoreMaps :
         validation_epoch_end(metric_ok, scores)
    /\ UNCHANGED <<trainer, text>>

TestStep ==
    /\ Running
    /\ Held < MaxHeld
    /\ \E metric_ok \in BOOLEAN, scores \in ScoreMaps :
         \E order \in KeyOrders(scores) : test_step(metric_ok, scores, order)
    /\ UNCHANGED <<trainer, text>>

TestEnd ==
    /\ Running
    /\ test_end
    /\ UNCHANGED <<trainer, text>>

Next == TrainingStep \/ ValidationStep \/ ValidationEpochEnd \/ TestStep \/ TestEnd

Spec == Init /\ [][Next]_vars

----------------------------------------------------------------------------
(* FitSpec: __main__.  trainer.fit runs training steps up to max_steps =       *)
(* total_training_steps, validates every val_check_interval steps and lets the *)
(* EarlyStopping callback watch val_Bleu_4; trainer.test then runs the test    *)
(* batches.  The runs explored are those of the default hyperparameters and    *)
(* those of a step budget in TotalSteps; their first FitVaried validations       *)
(* compute any of ScoreMaps and the later ones LaterScores.                    *)

Raised(l) == l.result = "raised"

FitInit ==
    \E a \in [num_warmup_halves : WarmupHalves, total_training_steps : TotalSteps]
                \cup {DefaultArgs} :
        Start(a, NoText)

LaterScores == BM(1536, 3277)

FitScoreMaps == IF Len(bleus) < FitVaried THEN ScoreMaps ELSE {LaterScores}

\* the validation batches of one validation: limit_val_batches of the data loader's
ValidationBatches == IF ValBatches < limit_val_batches THEN ValBatches ELSE limit_val_batches

\* the trainer after a training batch: validation is due every val_check_interval
\* steps
AfterTrainBatch(t) ==
    LET step == t.global_step + 1
    IN  [t EXCEPT !.global_step = step,
                  !.phase = IF step % val_check_interval = 0 THEN "validate" ELSE "train",
                  !.batches = 0]

\* EarlyStopping(monitor='val_Bleu_4', min_delta=0.00, patience=15, mode='max')
\* after a validation: an improvement resets the wait, anything else counts
early_stop_callback(t, current) ==
    IF IsNone(t.best_score) \/ current > Get(t.best_score)
    THEN [t EXCEPT !.best_score = Some(current), !.wait_count = 0]
    ELSE [t EXCEPT !.wait_count = @ + 1, !.should_stop = (t.wait_count + 1 >= patience)]

FitTrainingStep ==
    /\ Running
    /\ trainer.phase = "train"
    /\ ~trainer.should_stop
    /\ trainer.global_step < args.total_training_steps
    /\ \E fwd_ok \in BOOLEAN, loss \in LossVals :
         \E kld \in ForwardKlds(ModelModeAfterCheck(model_latent, args, iter)) :
            \E exp_up \in ExpChoices(fwd_ok, kld, iter, args.total_training_steps) :
               training_step(fwd_ok, loss, kld, exp_up)
    /\ trainer' = IF Raised(last') THEN trainer ELSE AfterTrainBatch(trainer)
    /\ UNCHANGED text

FitValidationStep ==
    /\ Running
    /\ trainer.phase = "validate"
    /\ trainer.batches < ValidationBatches
    /\ \E fwd_ok \in BOOLEAN, loss \in LossVals, kld \in ForwardKlds(model_latent) :
         \E exp_up \in ExpChoices(fwd_ok, kld, iter, args.total_training_steps) :
            validation_step(fwd_ok, loss, kld, exp_up)
    /\ trainer' = IF Raised(last') THEN trainer ELSE [trainer EXCEPT !.batches = @ + 1]
    /\ UNCHANGED text

FitValidationEpochEnd ==
    /\ Running
    /\ trainer.phase = "validate"
    /\ trainer.batches = ValidationBatches
    /\ \E metric_ok \in BOOLEAN, scores \in FitScoreMaps :
         validation_epoch_end(metric_ok, scores)
    /\ trainer' = IF Raised(last') THEN trainer
                  ELSE [early_stop_callback(trainer, Get(val_Bleu_4'))
                            EXCEPT !.phase = "train", !.batches = 0]
    /\ UNCHANGED text

\* fit returns when the step budget is used up or the callback asked to stop
FitEnd ==
    /\ Running
    /\ trainer.phase = "train"
    /\ trainer.should_stop \/ trainer.global_step >= args.total_training_steps
    /\ trainer' = [trainer EXCEPT !.phase = "test", !.batches = 0]
    /\ UNCHANGED <<moduleVars, text>>

FitTestStep ==
    /\ Running
    /\ trainer.phase = "test"
    /\ trainer.batches < MaxTestBatches
    /\ \E metric_ok \in BOOLEAN, scores \in ScoreMaps :
         \E order \in KeyOrders(scores) : test_step(metric_ok, scores, order)
    /\ trainer' = IF Raised(last') THEN trainer ELSE [trainer EXCEPT !.batches = @ + 1]
    /\ UNCHANGED text

FitNext == FitTrainingStep \/ FitValidationStep \/ FitValidationEpochEnd \/ FitEnd
           \/ FitTestStep

FitSpec == FitInit /\ [][FitNext]_vars

----------------------------------------------------------------------------
(* BudgetSpec: __main__ as in FitSpec, for every warmup threshold from -2.0 to *)
(* MaxBudget in steps of one half and every step budget up to MaxBudget, and   *)
(* for the budget of val_check_interval + 1 steps, which has one validation,   *)
(* with the thresholds from two below the budget's last step up to the budget. *)

MaxBudget == 4

BudgetWarmups == (-4)..(2 * MaxBudget)

LongBudgetArgs ==
    [num_warmup_halves : {2 * (val_check_interval + d) : d \in (-2)..1},
     total_training_steps : {val_check_interval + 1}]

BudgetInit ==
    \E a \in [num_warmup_halves : BudgetWarmups, total_training_steps : 0..MaxBudget]
                \cup LongBudgetArgs :
        Start(a, NoText)

BudgetSpec == BudgetInit /\ [][FitNext]_vars

----------------------------------------------------------------------------
(* BestSpec: evaluation over recorded histories.  The module starts after     *)
(* MaxLen or fewer validation passes, one every IterEvery training steps, in  *)
(* plain mode under the default hyperparameters; a further validation pass may *)
(* follow, then trainer.test feeds test batches to test_step, and test_end may *)
(* be called on what they accumulated.                                         *)

MaxLen == 3
IterEvery == 10

\* rounded scores as lines 170-176 record them, in units of 1e-4
HistVals == {30000, 50000, 80000}

\* the history after validation passes at iterations IterEvery, 2*IterEvery, ...
History(vals) == [j \in 1..Len(vals) |-> <<IterEvery * j, vals[j]>>]

Reverse(q) == [j \in 1..Len(q) |-> q[Len(q) + 1 - j]]

BestInit ==
    \E n \in 1..MaxLen : \E bv \in [1..n -> HistVals] : \E mv \in {bv, Reverse(bv)} :
        /\ args = DefaultArgs
        /\ latent_transformer = FALSE
        /\ model_latent = FALSE
        /\ iter = IterEvery * n
        /\ val_losses = EmptyAcc
        /\ bleus = History(bv)
        /\ msjs = History(mv)
        /\ fbds = <<>>
        /\ test_scores = <<>>
        /\ optimizer = [in_use |-> 0, built |-> 0]
        /\ val_Bleu_4 = Some(bv[n])
        /\ trainer = [phase |-> "train", global_step |-> 0, batches |-> 0,
                      wait_count |-> 0, best_score |-> None, should_stop |-> FALSE]
        /\ text = NoText
        /\ last = NoCall

BestValidationEpochEnd ==
    /\ Running
    /\ trainer.phase = "train"
    /\ Len(bleus) <= MaxLen
    /\ \E metric_ok \in BOOLEAN, scores \in ScoreMaps :
         validation_epoch_end(metric_ok, scores)
    /\ UNCHANGED <<trainer, text>>

\* trainer.batches counts the test batches whose test_step returned
BestTestStep ==
    /\ Running
    /\ trainer.batches < MaxTestBatches
    /\ \E metric_ok \in BOOLEAN, scores \in ScoreMaps :
         \E order \in KeyOrders(scores) : test_step(metric_ok, scores, order)
    /\ trainer' = IF Raised(last') THEN trainer
                  ELSE [trainer EXCEPT !.phase = "test", !.batches = @ + 1]
    /\ UNCHANGED text

BestTestEnd ==
    /\ Running
    /\ trainer.phase = "test"
    /\ last.op # "test_end"
    /\ test_end
    /\ UNCHANGED <<trainer, text>>

BestNext == BestValidationEpochEnd \/ BestTestStep \/ BestTestEnd

BestSpec == BestInit /\ [][BestNext]_vars

----------------------------------------------------------------------------
(* FilterSpec: decode_and_print filters a decoded sentence (a prediction or a  *)
(* reference, lines 145-146), and the filter is applied once more to what it   *)
(* returned.                                                                   *)

MaxTokens == 5

Vocabulary == {"[CLS]", "[SEP]", "cat", "dog", "extra"}

\* the string with a space before, two between and one after its tokens
RECURSIVE Padded(_)
Padded(list) ==
    IF list = <<>> THEN <<" ">>
    ELSE <<" ", Head(list), " ">> \o Padded(Tail(list))

\* decoded sentences of at most max tokens
Sentences(max) ==
    UNION {{Join(list), Padded(list)} :
             list \in UNION {[1..n -> Vocabulary] : n \in 0..max}}

FilterInit ==
    \E str \in Sentences(MaxTokens) :
        Start(DefaultArgs, [decoded |-> str, filtered |-> None, again |-> None])

FilterSentence ==
    /\ IsNone(text.filtered)
    /\ text' = [text EXCEPT !.filtered = Some(filter_special_tokens(text.decoded))]
    /\ UNCHANGED <<moduleVars, trainer>>

FilterAgain ==
    /\ ~IsNone(text.filtered)
    /\ IsNone(text.again)
    /\ text' = [text EXCEPT !.again = Some(filter_special_tokens(Get(text.filtered)))]
    /\ UNCHANGED <<moduleVars, trainer>>

FilterNext == FilterSentence \/ FilterAgain

FilterSpec == FilterInit /\ [][FilterNext]_vars

----------------------------------------------------------------------------
(* Properties *)

LossStep == last.op \in {"training_step", "validation_step"}
\* the step's forward pass returned a KL term and calculate_losses returned
LatentLosses == LossStep /\ ~IsNone(last.kld) /\ ~IsNone(last.losses)

\* C1: the transition block (set the flag, build an optimizer) runs in a training
\* step exactly when that step is the first one entered with iteration above the
\* warmup threshold, that is when the threshold is passed and the mode is still PLAIN.
C1_TransitionExactlyOnce ==
    (last.op = "training_step" /\ last.result = "returned") =>
        (last.transitioned <=>
            (WarmupPassed(args, last.entry_iter) /\ ~last.entry_latent))

\* C2: once the latent flag is set no hook clears it.
C2_LatentIsPermanent == [][latent_transformer => latent_transformer']_vars

C2_Witness ==
    /\ latent_transformer
    /\ last.op \in {"validation_step", "validation_epoch_end", "test_step", "test_end"}
    /\ last.result = "returned"

\* C3: the update of the transitioning training step and of every later one is
\* performed by an optimizer built at the transition, not by the instance in use
\* before it (instance 0).
C3_FreshOptimizerInUse ==
    (last.op = "training_step" /\ last.result = "returned" /\ latent_transformer) =>
        (optimizer.in_use # 0 /\ optimizer.in_use <= optimizer.built)

\* C4: with a null KL term calculate_losses returns (r, r, 0) whatever the
\* iteration and total_training_steps are, total_training_steps = 0 included.
C4_PlainPassthrough ==
    (LossStep /\ ~IsNone(last.loss) /\ IsNone(last.kld)) =>
        last.losses = Some(Losses(Get(last.loss), Get(last.loss), 0))

C4_Witness ==
    /\ last.op = "training_step" /\ last.result = "returned"
    /\ IsNone(last.kld)
    /\ last.entry_iter > 0
    /\ args.total_training_steps = 0
    /\ last.losses = Some(Losses(3 * Scale, 3 * Scale, 0))

C6_BoundaryHalf ==
    (LatentLosses /\ (4 * last.entry_iter) % args.total_training_steps = 0) =>
        LET l == Get(last.losses)
        IN  /\ 2 * (l.total - Get(last.loss)) = Get(last.kld)
            /\ l.rec = Get(last.loss)
            /\ l.kl = Get(last.kld)

C6_Witness ==
    /\ last.op = "training_step"
    /\ last.entry_iter = 0
    /\ args.total_training_steps = 4
    /\ last.loss = Some(2 * Scale)
    /\ last.kld = Some(Scale)
    /\ last.losses = Some(Losses((5 * Scale) \div 2, 2 * Scale, Scale))

\* C7: when validation_epoch_end returns, all three lists of the validation
\* accumulator are empty.
C7_AccumulatorEmptyAfterEpochEnd ==
    (last.op = "validation_epoch_end" /\ last.result = "returned") =>
        val_losses = EmptyAcc

C7_Witness ==
    /\ last.op = "validation_epoch_end" /\ last.result = "returned"
    /\ last.entry_acc > 0
    /\ val_losses = EmptyAcc

\* C8: a validation_epoch_end whose metric computation fails adds nothing to the
\* score histories and still reads and clears the validation accumulator.
C8_MetricFailureStillClears ==
    [][(last'.op = "validation_epoch_end" /\ last'.metric_failed) =>
          (/\ bleus' = bleus /\ msjs' = msjs /\ fbds' = fbds
           /\ val_losses' = EmptyAcc)]_vars

\* C9: when the early-stopping callback stops the run, the iteration counter is
\* above num_warmup_steps.
C9_NoEarlyStopDuringWarmup == trainer.should_stop => WarmupPassed(args, iter)

\* C10: the iteration counter is never negative, a training step that returns adds
\* exactly one to it, and a training step that raises and every other hook leave it
\* as it is.
C10_IterCountsCompletedSteps ==
    [][/\ iter >= 0
       /\ IF last'.op = "training_step" /\ last'.result = "returned"
          THEN iter' = iter + 1
          ELSE iter' = iter]_vars

C10_Witness ==
    /\ last.op = "training_step" /\ last.result = "raised"
    /\ last.entry_iter > 0
    /\ iter = last.entry_iter

Evaluation == last.op \in {"validation_epoch_end", "test_step"}

\* C11: an evaluation whose best-score report finds the Bleu_4 or the msj_4 history
\* empty (a test step before any validation pass) fails: the call raises, reports
\* no best score, and no score of it reaches the test accumulator.
C11_EmptyHistoryFails ==
    [][(Evaluation' /\ (bleus' = <<>> \/ msjs' = <<>>))
         => /\ last'.result = "raised"
            /\ IsNone(last'.best)
            /\ test_scores' = test_scores]_vars

C11_Witness ==
    /\ last.op = "test_step"
    /\ ~last.metric_failed
    /\ bleus = <<>>
    /\ last.result = "raised"
    /\ test_scores = <<>>

\* C12: with total_training_steps <= 0 the hyperparameters are rejected before
\* training: no training step, validation step or loss computation is executed, so
\* the division by the zero cycle length is never reached.
C12_InvalidStepsRejected ==
    args.total_training_steps <= 0 => ~LossStep

\* the pair r is an entry of the history hist and no entry has a greater value
IsMaximumOf(r, hist) ==
    /\ \E i \in 1..Len(hist) : hist[i] = r
    /\ \A j \in 1..Len(hist) : hist[j][2] <= r[2]

\* C13: the best score an evaluation reports for Bleu_4 (msj_4) is an entry of that
\* history, iteration and value together, whose value is at least every recorded
\* value.
C13_BestIsRunningMaximum ==
    (Evaluation /\ ~IsNone(last.best))
        => /\ IsMaximumOf(Get(last.best).bleu, bleus)
           /\ IsMaximumOf(Get(last.best).msj, msjs)

\* the history (10, 5.0), (20, 8.0), (30, 3.0) reports (20, 8.0)
C13_Witness ==
    /\ last.op = "test_step"
    /\ bleus = <<<<IterEvery, 50000>>, <<2 * IterEvery, 80000>>, <<3 * IterEvery, 30000>>>>
    /\ ~IsNone(last.best)
    /\ Get(last.best).bleu = <<2 * IterEvery, 80000>>

IsPrefix(old, new) == Len(old) <= Len(new) /\ SubSeq(new, 1, Len(old)) = old

\* the evaluation that just ran tracked history and had scores to record
TrackedEvaluation == last.op = "validation_epoch_end" /\ ~last.metric_failed

\* C14: the Bleu_4, msj_4 and fbd histories are append-only.  An evaluation that
\* tracks history appends exactly one pair (current iteration, rounded value) to
\* the history of each watched key its scores hold; no other operation changes a
\* history, so each history always extends its earlier value.
C14_HistoriesAppendOnly ==
    [][/\ IsPrefix(bleus, bleus') /\ IsPrefix(msjs, msjs') /\ IsPrefix(fbds, fbds')
       /\ TrackedEvaluation' =>
             \E scores \in ScoreMaps :
                /\ bleus' = Append(bleus, <<iter, RoundedVal(scores["Bleu_4"])>>)
                /\ msjs' = Append(msjs, <<iter, RoundedVal(scores["msj_4"])>>)
                /\ fbds' = IF "fbd" \in DOMAIN scores
                           THEN Append(fbds, <<iter, RoundedVal(scores["fbd"])>>)
                           ELSE fbds
       /\ ~TrackedEvaluation' => UNCHANGED <<bleus, msjs, fbds>>]_vars

C14_Witness ==
    /\ TrackedEvaluation
    /\ Len(bleus) = 2
    /\ Len(msjs) = 2
    /\ Len(fbds) = 1
    /\ bleus[1][1] < bleus[2][1]

\* the tokens of list before its first separator, all of them when it has none
BeforeSeparator(list) ==
    IF \E i \in 1..Len(list) : list[i] = sep_token
    THEN SubSeq(list, 1, (CHOOSE i \in 1..Len(list) :
                            /\ list[i] = sep_token
                            /\ \A j \in 1..(i - 1) : list[j] # sep_token) - 1)
    ELSE list

IsOrdinary(token) == token \notin special_tokens

\* C15: filter_special_tokens returns, joined by single spaces and in their order,
\* the tokens before the first separator (all tokens when there is none) that are
\* not special tokens; filtering its result again returns the same string.
C15_FilterSpecialTokens ==
    /\ ~IsNone(text.filtered) =>
          Get(text.filtered) = Join(SelectSeq(BeforeSeparator(Split(text.decoded)), IsOrdinary))
    /\ ~IsNone(text.again) => text.again = text.filtered

\* "[CLS] cat dog [SEP] extra" becomes "cat dog", and stays "cat dog"
C15_Witness ==
    /\ text.decoded = <<"[CLS]", " ", "cat", " ", "dog", " ", "[SEP]", " ", "extra">>
    /\ text.filtered = Some(<<"cat", " ", "dog">>)
    /\ text.again = Some(<<"cat", " ", "dog">>)

\* C16: a validation step makes no mode-transition check: it leaves the iteration
\* counter, the mode flag of the trainer and of the model, the optimizer, the
\* histories and the test accumulator unchanged, and when it completes it appends
\* exactly one value (the loss component it computed) to each of the three
\* validation-loss lists, which therefore always have equal lengths.
C16_ValidationStepFrame ==
    [][/\ last'.op = "validation_step" =>
            /\ UNCHANGED <<iter, latent_transformer, model_latent, optimizer,
                           bleus, msjs, fbds, test_scores>>
            /\ last'.result = "returned" =>
                  /\ val_losses'.total = Append(val_losses.total, Get(last'.losses).total)
                  /\ val_losses'.rec = Append(val_losses.rec, Get(last'.losses).rec)
                  /\ val_losses'.kl = Append(val_losses.kl, Get(last'.losses).kl)
            /\ last'.result = "raised" => UNCHANGED val_losses
       /\ Len(val_losses'.total) = Len(val_losses'.rec)
       /\ Len(val_losses'.rec) = Len(val_losses'.kl)]_vars

\* a second validation step completed in latent mode after a training step
C16_Witness ==
    /\ last.op = "validation_step"
    /\ last.result = "returned"
    /\ latent_transformer
    /\ iter > 0
    /\ Len(val_losses.kl) = 2

\* C17: the first test step that reports a key only registers it with an empty list
\* and drops its value, each later one appends its value; so after n >= 1 test
\* steps the accumulator of a key they all report holds n - 1 values, those of the
\* last n - 1 steps in order, and test_end reduces that list to its mean.
C17_FirstTestScoreDropped ==
    [][/\ (last'.op = "test_step" /\ last'.result = "returned") =>
            \E scores \in ScoreMaps :
               /\ DOMAIN test_scores' = DOMAIN test_scores \cup DOMAIN scores
               /\ \A k \in DOMAIN test_scores' :
                     test_scores'[k] =
                        IF k \notin DOMAIN scores THEN test_scores[k]
                        ELSE IF k \notin DOMAIN test_scores THEN EmptyList
                        ELSE [test_scores[k] EXCEPT !.items = Append(@, scores[k])]
       /\ last'.op = "test_end" =>
            /\ DOMAIN test_scores' = DOMAIN test_scores
            /\ \A k \in DOMAIN test_scores :
                  test_scores[k].is_list =>
                     test_scores'[k] = [is_list |-> FALSE, items |-> <<>>,
                                        sum |-> SumSeq(test_scores[k].items),
                                        n |-> Len(test_scores[k].items)]
       /\ trainer'.batches >= 1 =>
            \A k \in {"Bleu_4", "msj_4"} :
               /\ k \in DOMAIN test_scores'
               /\ IF test_scores'[k].is_list
                  THEN Len(test_scores'[k].items) = trainer'.batches - 1
                  ELSE test_scores'[k].n = trainer'.batches - 1]_vars

\* three test steps, then test_end takes the mean of two values
C17_Witness ==
    /\ last.op = "test_end"
    /\ trainer.batches = 3
    /\ "fbd" \in DOMAIN test_scores
    /\ ~test_scores["Bleu_4"].is_list
    /\ test_scores["Bleu_4"].n = 2

\* C18: a test step evaluates without history tracking: it leaves the Bleu_4, msj_4
\* and fbd histories, the iteration counter, the mode flags and the validation
\* accumulator unchanged, so the best scores it reports are those of the histories
\* as the last validation pass left them.
C18_TestStepTracksNoHistory ==
    [][last'.op = "test_step" =>
         /\ UNCHANGED <<bleus, msjs, fbds, iter, latent_transformer, model_latent,
                        val_losses>>
         /\ last'.result = "returned" => last'.best = BestReport(bleus, msjs)]_vars

\* a test step after a training step, a validation step and a validation pass
C18_Witness ==
    /\ last.op = "test_step"
    /\ last.result = "returned"
    /\ iter > 0
    /\ Len(bleus) = 1
    /\ bleus[1][1] = iter
    /\ Get(last.best).bleu = bleus[1]
    /\ "Bleu_4" \in DOMAIN test_scores

\* C19: in every reachable state the trainer's mode flag equals the model's flag.
C19_FlagsAgree == latent_transformer = model_latent

C19_Witness ==
    /\ last.op = "training_step"
    /\ last.transitioned
    /\ ~last.entry_latent
    /\ latent_transformer
    /\ model_latent

\* C20: the training steps entered with an iteration up to the warmup threshold W
\* run in PLAIN mode and the step entered with iteration W + 1 is the first LATENT
\* one, so a run of at most T training steps is ever in LATENT mode only if
\* W + 1 < T; when W equals T, as under the defaults 35000 / 35000, the mode is
\* PLAIN at every training and validation step.
C20_LatentOnlyWithinBudget ==
    /\ last.op = "training_step" =>
          /\ 2 * last.entry_iter <= args.num_warmup_halves => ~latent_transformer
          /\ 2 * last.entry_iter = args.num_warmup_halves + 2 =>
                latent_transformer /\ ~last.entry_latent
    /\ latent_transformer => args.num_warmup_halves + 2 < 2 * args.total_training_steps
    /\ args.num_warmup_halves = 2 * args.total_training_steps =>
          /\ ~latent_transformer
          /\ LossStep => IsNone(last.kld)

\* W = 2, T = 4: the last step of the budget, entered with iteration 3, switches
C20_Witness ==
    /\ last.op = "training_step"
    /\ last.result = "returned"
    /\ args.num_warmup_halves >= 2
    /\ 2 * last.entry_iter = args.num_warmup_halves + 2
    /\ 2 * args.total_training_steps = args.num_warmup_halves + 4
    /\ ~last.entry_latent
    /\ latent_transformer
====
